---- MODULE Spec2Model ----
(***************************************************************************)
(* A model of the console Logger of louisgoodnews/Logger                   *)
(* (src/src/Logger/core/core.py, with the name setter of the older variant *)
(* src/src/core/logger.py).                                                *)
(*                                                                         *)
(* The program is single-threaded: every public operation of a Logger is   *)
(* one action, followed by the step in which control is back with the      *)
(* client.  execute() is split at the point where it hands control to the  *)
(* caller-supplied callable, so that what has been written before the      *)
(* callable runs is a state of the model.                                  *)
(*                                                                         *)
(* Python semantics are those of CPython 3.12 or later: line 323 of        *)
(* core.py nests double quotes inside a double-quoted f-string, which      *)
(* earlier interpreters reject when the module is imported.                *)
(*                                                                         *)
(* A message is a sequence of text fragments (the pieces an f-string       *)
(* concatenates); a written line is a record of the fields that line 323   *)
(* renders.  The timestamp is the environment's clock and is left out.     *)
(***************************************************************************)
EXTENDS Integers, Sequences, FiniteSets, TLC

VARIABLES loggers, pc, last, emitted

vars == <<loggers, pc, last, emitted>>

----------------------------------------------------------------------------
(* Bounds *)

\* number of extra positional arguments a client passes to one call
MaxArgs == 1

----------------------------------------------------------------------------
(* Level, LevelColor *)

Levels == {"SILENT", "DEBUG", "INFO", "WARNING", "ERROR", "CRITICAL"}

\* Level.<name>.value
LevelValue(l) ==
    CASE l = "SILENT"   -> 0
      [] l = "DEBUG"    -> 10
      [] l = "INFO"     -> 20
      [] l = "WARNING"  -> 30
      [] l = "ERROR"    -> 40
      [] l = "CRITICAL" -> 50

\* LevelColor[<name>].value; the strings stand for the ANSI escape codes
LevelColor(l) ==
    CASE l = "SILENT"   -> "ESC[0m"
      [] l = "DEBUG"    -> "ESC[94m"
      [] l = "INFO"     -> "ESC[92m"
      [] l = "WARNING"  -> "ESC[93m"
      [] l = "ERROR"    -> "ESC[91m"
      [] l = "CRITICAL" -> "ESC[95m"

\* the "\033[0m" that ends every line
Reset == "ESC[0m"

----------------------------------------------------------------------------
(* Values the client supplies *)

Names == {"a", "b"}

\* the Logger instances the client holds: every operation involves one
\* instance or a pair of them
Slots == {1, 2}

\* the user's message text
UserMessage == <<"hi">>

\* extra positional arguments: tuples of length 0..MaxArgs
ArgTuples == UNION { [1..n -> {"1"}] : n \in 0..MaxArgs }

\* extra keyword arguments of log() and execute(), by key
PlainKwargs == {{}, {"k"}}

\* extra keyword arguments a client can hand to a convenience method: "k" is
\* a free key, "level" and "override" are names of log()'s own parameters
ConvenienceKwargs == {{}, {"k"}, {"level"}, {"override"}}

\* the keys a client looks up with logger[key] and key in logger: the
\* documented attribute names, the names of the instance fields, and a key
\* that names nothing
ItemKeys == {"name", "level", "_name", "_level", "missing"}

\* colours a client stores in a colorization table, and the keys it uses
CustomColors == {"ESC[35m", "ESC[36m"}
ColorKeys == {"ERROR"}

None == "None"

NoLine == <<>>

----------------------------------------------------------------------------
(* Logger.__init__ *)

NewLogger(name, level) ==
    [ name |-> name, level |-> level, colorization |-> {} ]

\* dict.get(key, default) on a table kept as a set of <<key, value>> pairs
\* with at most one pair per key
DictGet(table, key, default) ==
    IF \E p \in table : p[1] = key
    THEN (CHOOSE p \in table : p[1] = key)[2]
    ELSE default

\* dict.update({key: value})
DictUpdate(table, key, value) ==
    { p \in table : p[1] # key } \cup { <<key, value>> }

----------------------------------------------------------------------------
(* Logger.log *)

\* line 317 with <= for <: a message at the minimum level is dropped too
Filtered_Inclusive(override, level, minimum) ==
    ~override /\ LevelValue(level) <= LevelValue(minimum)

\* line 317 without the override test
Filtered_IgnoresOverride(override, level, minimum) ==
    LevelValue(level) < LevelValue(minimum)

\* the guard of line 317: the message is dropped
Filtered(override, level, minimum) ==
    ~override /\ LevelValue(level) < LevelValue(minimum)

\* line 323 without the lookup in the colorization table
Render_PaletteOnly(lg, level, message, args, kwargs) ==
    [ color   |-> LevelColor(level),
      name    |-> lg.name,
      level   |-> level,
      message |-> message,
      args    |-> args,
      kwargs  |-> kwargs,
      reset   |-> Reset ]

\* the line that print() writes at lines 322-324
Render(lg, level, message, args, kwargs) ==
    [ color   |-> DictGet(lg.colorization, level, LevelColor(level)),
      name    |-> lg.name,
      level   |-> level,
      message |-> message,
      args    |-> args,
      kwargs  |-> kwargs,
      reset   |-> Reset ]

\* what one call of log() appends to standard output
LogLines(lg, message, override, level, args, kwargs) ==
    IF Filtered(override, level, lg.level)
    THEN NoLine
    ELSE << Render(lg, level, message, args, kwargs) >>

----------------------------------------------------------------------------
(* The per-level convenience methods *)

Min(a, b) == IF a < b THEN a ELSE b

\* the parameters of log() that a positional argument can fill, in order
LogParams == <<"message", "override", "level">>

\* the keywords every convenience method passes to log() explicitly
ExplicitKeywords == {"level", "message", "override"}

\* self.log(level=..., message=..., override=True, *args, **kwargs):
\* the call raises TypeError when a parameter of log() receives two values
ForwardRaises(args, kwargs) ==
    LET positional == { LogParams[j] : j \in 1..Min(Len(args), Len(LogParams)) }
    IN  \/ kwargs \cap ExplicitKeywords # {}
        \/ positional \cap (ExplicitKeywords \cup kwargs) # {}

\* the override flag the convenience methods pass
ConvenienceOverride == TRUE

\* silent/debug/info/warning/error/critical(message, *args, **kwargs)
Convenience(lg, level, message, args, kwargs) ==
    IF ForwardRaises(args, kwargs)
    THEN [ raised |-> "TypeError", lines |-> NoLine ]
    ELSE [ raised |-> "none",
           lines  |-> LogLines(lg, message, ConvenienceOverride, level,
                               SubSeq(args, Len(LogParams) + 1, Len(args)),
                               kwargs) ]

----------------------------------------------------------------------------
(* Logger.execute *)

\* the callables a client passes to execute(): with or without a __name__
\* (functools.partial objects and callable instances have none); returning a
\* value, raising an Exception, or raising a BaseException that is not an
\* Exception (KeyboardInterrupt, SystemExit)
Callables ==
    { [ hasName |-> TRUE,  name |-> "f", outcome |-> "return", value |-> "3" ],
      [ hasName |-> TRUE,  name |-> "f", outcome |-> "Exception", value |-> None ],
      [ hasName |-> TRUE,  name |-> "f", outcome |-> "KeyboardInterrupt", value |-> None ],
      [ hasName |-> FALSE, name |-> "",  outcome |-> "return", value |-> "3" ] }

\* the keys of a kwargs dict as a sequence, for rendering
KeySeq(kwargs) ==
    CHOOSE s \in [1..Cardinality(kwargs) -> kwargs] :
        \A k \in kwargs : \E j \in 1..Cardinality(kwargs) : s[j] = k

\* the messages of lines 516, 528, 529, 530 and 536
ExecutingMessage(fn, args, kwargs) ==
    <<"Executing ", fn.name, " with args: ">> \o args \o <<", kwargs: ">>
        \o KeySeq(kwargs)
SuccessMessage(fn) == <<fn.name, " executed successfully.">>
DurationMessage == <<"Execution time: ", "duration", " seconds">>
ResultMessage(result) == <<"Result: ", result>>
ErrorMessage(fn) == <<"Error executing ", fn.name, ": ", "error text">>

\* self.info(message=...) and self.error(message=...) as execute() calls them
SelfInfo(lg, message) == Convenience(lg, "INFO", message, <<>>, {}).lines
\* the error report sent through log() without override
SelfError_Filtered(lg, message) ==
    LogLines(lg, message, FALSE, "ERROR", <<>>, {})

SelfError(lg, message) == Convenience(lg, "ERROR", message, <<>>, {}).lines

\* the except clause of line 534 catches this failure
Caught(outcome) == outcome = "Exception"

\* lines 511-516, and lines 534-536 when reading function.__name__ fails:
\* the handler reads function.__name__ again and its AttributeError leaves
\* execute()
ExecuteStart(lg, fn, args, kwargs) ==
    IF fn.hasName
    THEN [ raised |-> "none", calling |-> TRUE,
           lines |-> SelfInfo(lg, ExecutingMessage(fn, args, kwargs)) ]
    ELSE [ raised |-> "AttributeError", calling |-> FALSE, lines |-> NoLine ]

\* lines 519-539 with the result logged but not returned
ExecuteFinish_DropsResult(lg, fn) ==
    IF fn.outcome = "return"
    THEN [ raised |-> "none", ret |-> None,
           lines |-> SelfInfo(lg, SuccessMessage(fn)) \o SelfInfo(lg, DurationMessage)
                     \o SelfInfo(lg, ResultMessage(fn.value)) ]
    ELSE IF Caught(fn.outcome)
    THEN [ raised |-> "none", ret |-> None,
           lines |-> SelfError(lg, ErrorMessage(fn)) ]
    ELSE [ raised |-> fn.outcome, ret |-> None, lines |-> NoLine ]

\* lines 519-539: the callable runs, then the success lines or the handler
ExecuteFinish(lg, fn) ==
    IF fn.outcome = "return"
    THEN [ raised |-> "none", ret |-> fn.value,
           lines |-> SelfInfo(lg, SuccessMessage(fn)) \o SelfInfo(lg, DurationMessage)
                     \o SelfInfo(lg, ResultMessage(fn.value)) ]
    ELSE IF Caught(fn.outcome)
    THEN [ raised |-> "none", ret |-> None,
           lines |-> SelfError(lg, ErrorMessage(fn)) ]
    ELSE [ raised |-> fn.outcome, ret |-> None, lines |-> NoLine ]

----------------------------------------------------------------------------
(* Logger.exception *)

\* names bound in the body of exception(), and at module level in core.py
ExceptionLocals == {"self", "exception", "message", "log_traceback"}
ModuleNames == {"traceback", "datetime", "Enum", "Any", "Callable", "Final",
                "List", "Optional", "Level", "LevelColor", "Logger"}

\* the names the call of lines 569-574 evaluates
ExceptionCallNames == {"self", "Level", "message", "args", "kwargs"}

\* lines 562-566
TracebackText == <<"Traceback for ", "ValueError", "stack trace">>
ExceptionMessage(message, logTraceback) ==
    IF logTraceback THEN message \o TracebackText ELSE message

\* lines 561-574
ExceptionCall(lg, message, logTraceback) ==
    IF ExceptionCallNames \subseteq ExceptionLocals \cup ModuleNames
    THEN [ raised |-> "none",
           lines |-> LogLines(lg, ExceptionMessage(message, logTraceback),
                              FALSE, "ERROR", <<>>, {}) ]
    ELSE [ raised |-> "NameError", lines |-> NoLine ]

----------------------------------------------------------------------------
(* Attribute assignment and comparison *)

\* a name property with a setter that stores the value
NameAssign_Assigns(lg, value) ==
    [ raised |-> "none", logger |-> [ lg EXCEPT !.name = value ],
      lines |-> NoLine ]

\* logger.name = value: name is a property without a setter
NameAssign(lg, value) ==
    [ raised |-> "AttributeError", logger |-> lg, lines |-> NoLine ]

\* the palette of _colourise_ in the older variant
VariantColour(level) ==
    CASE level = "SILENT"   -> "ESC[0m"
      [] level = "DEBUG"    -> "ESC[90m"
      [] level = "INFO"     -> "ESC[94m"
      [] level = "WARNING"  -> "ESC[93m"
      [] level = "ERROR"    -> "ESC[91m"
      [] level = "CRITICAL" -> "ESC[91m"

\* logger.name = value in the older variant: the setter logs a critical
\* message (that variant's log() does not filter) and raises AttributeError
VariantNameAssign(lg, value) ==
    [ raised |-> "AttributeError", logger |-> lg,
      lines |-> << [ color |-> VariantColour("CRITICAL"), name |-> lg.name,
                     level |-> "CRITICAL",
                     message |-> <<"Cannot set attribute 'name' in '", "Logger", "'.">>,
                     args |-> <<>>, kwargs |-> {}, reset |-> Reset ] >> ]

\* logger.colorization = value: property.__set__ calls the setter with two
\* positional arguments (self, value); it accepts one and **kwargs
ColorizationAssign(lg, key, color) ==
    LET given == 2
        accepted == 1
    IN  IF given > accepted
        THEN [ raised |-> "TypeError", logger |-> lg ]
        ELSE [ raised |-> "none",
               logger |-> [ lg EXCEPT !.colorization = DictUpdate(@, key, color) ] ]

\* logger.colorization[key] = color: the getter returns the table itself
ColorizationStore(lg, key, color) ==
    [ lg EXCEPT !.colorization = DictUpdate(@, key, color) ]

\* an __eq__ that also compares the colorization tables
LoggerEq_ComparesColors(self, other, isLogger) ==
    IF ~isLogger
    THEN FALSE
    ELSE /\ self.name = other.name /\ self.level = other.level
         /\ self.colorization = other.colorization

\* Logger.__eq__(self, other); isLogger is isinstance(other, Logger)
LoggerEq(self, other, isLogger) ==
    IF ~isLogger
    THEN FALSE
    ELSE self.name = other.name /\ self.level = other.level

\* the keys of the instance __dict__: the attributes __init__ assigns
InstanceKeys == {"_colorization", "_level", "_name"}

\* self.__dict__[key] for a key of InstanceKeys
InstanceValue(lg, key) ==
    CASE key = "_name"         -> lg.name
      [] key = "_level"        -> lg.level
      [] key = "_colorization" -> lg.colorization

\* Logger.__getitem__(self, key): self.__dict__.get(key, None)
GetItem(lg, key) ==
    IF key \in InstanceKeys THEN InstanceValue(lg, key) ELSE None

\* Logger.__contains__(self, item): item in self.__dict__
Contains(lg, item) == item \in InstanceKeys

----------------------------------------------------------------------------
(* State *)

\* loggers: the instances created so far, in order of creation
\* pc:      "idle" when the client is about to make a call, "calling" while
\*          execute() runs the callable, "returned" when the call has ended
\*          and the client sees its result or the exception it raised
\* last:    the most recent call: its arguments and how it ended
\* emitted: the lines that call has written to standard output
NoCall ==
    [ op |-> "none", lg |-> 0, other |-> 0, level |-> "SILENT",
      override |-> FALSE, message |-> <<>>, args |-> <<>>, kwargs |-> {},
      fn |-> [ hasName |-> TRUE, name |-> "", outcome |-> "return",
               value |-> None ],
      flag |-> FALSE, invoked |-> FALSE, value |-> "",
      before |-> <<>>, raised |-> "none", ret |-> None, eq |-> FALSE ]

Ids == 1..Len(loggers)

\* the call record of an operation on logger i
Call(op, i) == [ NoCall EXCEPT !.op = op, !.lg = i, !.before = loggers ]

Init ==
    /\ loggers = <<>>
    /\ pc = "idle"
    /\ last = NoCall
    /\ emitted = NoLine

----------------------------------------------------------------------------
(* Operations *)

\* a factory that keeps a registry by name and hands out the instance it
\* created earlier for that name
GetLogger_Registry(name, level) ==
    /\ pc = "idle"
    /\ Len(loggers) < Cardinality(Slots)
    /\ IF \E j \in Ids : loggers[j].name = name
       THEN /\ loggers' = loggers
            /\ last' = Call("get_logger",
                            CHOOSE j \in Ids : loggers[j].name = name)
       ELSE /\ loggers' = Append(loggers, NewLogger(name, level))
            /\ last' = Call("get_logger", Len(loggers) + 1)
    /\ emitted' = NoLine
    /\ pc' = "returned"

\* Logger.get_logger(name, level): a new instance every time
GetLogger(name, level) ==
    /\ pc = "idle"
    /\ Len(loggers) < Cardinality(Slots)
    /\ loggers' = Append(loggers, NewLogger(name, level))
    /\ last' = Call("get_logger", Len(loggers) + 1)
    /\ emitted' = NoLine
    /\ pc' = "returned"

\* a log() that looks the colour up with setdefault() for get(), storing the
\* palette colour of every level it writes
Log_CachesColour(i, override, level, args, kwargs) ==
    /\ pc = "idle"
    /\ i \in Ids
    /\ emitted' = LogLines(loggers[i], UserMessage, override, level, args, kwargs)
    /\ last' = [ Call("log", i) EXCEPT !.level = level, !.override = override,
                                       !.message = UserMessage,
                                       !.args = args, !.kwargs = kwargs ]
    /\ pc' = "returned"
    /\ loggers' =
          IF Filtered(override, level, loggers[i].level)
          THEN loggers
          ELSE [ loggers EXCEPT ![i].colorization =
                    DictUpdate(@, level, DictGet(@, level, LevelColor(level))) ]

\* logger.log(message, override, level, *args, **kwargs)
Log(i, override, level, args, kwargs) ==
    /\ pc = "idle"
    /\ i \in Ids
    /\ emitted' = LogLines(loggers[i], UserMessage, override, level, args, kwargs)
    /\ last' = [ Call("log", i) EXCEPT !.level = level, !.override = override,
                                       !.message = UserMessage,
                                       !.args = args, !.kwargs = kwargs ]
    /\ pc' = "returned"
    /\ UNCHANGED loggers

\* logger.<method>(message, *args, **kwargs) for the method of one level
ConvenienceCall(i, level, args, kwargs) ==
    LET r == Convenience(loggers[i], level, UserMessage, args, kwargs)
    IN  /\ pc = "idle"
        /\ i \in Ids
        /\ emitted' = r.lines
        /\ last' = [ Call("convenience", i) EXCEPT
                        !.level = level, !.message = UserMessage,
                        !.args = args, !.kwargs = kwargs, !.raised = r.raised ]
        /\ pc' = "returned"
    /\ UNCHANGED loggers

Silent(i, args, kwargs)   == ConvenienceCall(i, "SILENT", args, kwargs)
Debug(i, args, kwargs)    == ConvenienceCall(i, "DEBUG", args, kwargs)
Info(i, args, kwargs)     == ConvenienceCall(i, "INFO", args, kwargs)
Warning(i, args, kwargs)  == ConvenienceCall(i, "WARNING", args, kwargs)
Error(i, args, kwargs)    == ConvenienceCall(i, "ERROR", args, kwargs)
Critical(i, args, kwargs) == ConvenienceCall(i, "CRITICAL", args, kwargs)

\* logger.execute(function, *args, **kwargs), up to the call of function
Execute(i, fn, args, kwargs) ==
    LET r == ExecuteStart(loggers[i], fn, args, kwargs)
    IN  /\ pc = "idle"
        /\ i \in Ids
        /\ emitted' = r.lines
        /\ pc' = IF r.calling THEN "calling" ELSE "returned"
        /\ last' = [ Call("execute", i) EXCEPT
                        !.fn = fn, !.args = args, !.kwargs = kwargs,
                        !.raised = r.raised ]
        /\ UNCHANGED loggers

\* function(*args, **kwargs) runs and execute() ends
FunctionCall ==
    LET r == ExecuteFinish(loggers[last.lg], last.fn)
    IN  /\ pc = "calling"
        /\ emitted' = emitted \o r.lines
        /\ pc' = "returned"
        /\ last' = [ last EXCEPT !.invoked = TRUE, !.raised = r.raised,
                                 !.ret = r.ret ]
        /\ UNCHANGED loggers

\* logger.exception(exception, message, log_traceback)
Exception(i, logTraceback) ==
    LET r == ExceptionCall(loggers[i], UserMessage, logTraceback)
    IN  /\ pc = "idle"
        /\ i \in Ids
        /\ emitted' = r.lines
        /\ last' = [ Call("exception", i) EXCEPT
                        !.message = UserMessage, !.flag = logTraceback,
                        !.raised = r.raised ]
        /\ pc' = "returned"
    /\ UNCHANGED loggers

\* logger.name = value
SetName(i, value) ==
    LET r == NameAssign(loggers[i], value)
    IN  /\ pc = "idle"
        /\ i \in Ids
        /\ loggers' = [ loggers EXCEPT ![i] = r.logger ]
        /\ emitted' = r.lines
        /\ last' = [ Call("set_name", i) EXCEPT !.value = value,
                                                !.raised = r.raised ]
        /\ pc' = "returned"

\* logger.name = value on the older variant of the class
VariantSetName(i, value) ==
    LET r == VariantNameAssign(loggers[i], value)
    IN  /\ pc = "idle"
        /\ i \in Ids
        /\ loggers' = [ loggers EXCEPT ![i] = r.logger ]
        /\ emitted' = r.lines
        /\ last' = [ Call("set_name", i) EXCEPT !.value = value,
                                                !.raised = r.raised ]
        /\ pc' = "returned"

\* logger.colorization = {key: color}
SetColorization(i, key, color) ==
    LET r == ColorizationAssign(loggers[i], key, color)
    IN  /\ pc = "idle"
        /\ i \in Ids
        /\ loggers' = [ loggers EXCEPT ![i] = r.logger ]
        /\ emitted' = NoLine
        /\ last' = [ Call("set_colorization", i) EXCEPT
                        !.level = key, !.value = color, !.raised = r.raised ]
        /\ pc' = "returned"

\* logger.colorization[key] = color
StoreColor(i, key, color) ==
    /\ pc = "idle"
    /\ i \in Ids
    /\ loggers' = [ loggers EXCEPT ![i] = ColorizationStore(@, key, color) ]
    /\ emitted' = NoLine
    /\ last' = [ Call("store_color", i) EXCEPT !.level = key, !.value = color ]
    /\ pc' = "returned"

\* logger.colorization.clear()
ClearColors(i) ==
    /\ pc = "idle"
    /\ i \in Ids
    /\ loggers' = [ loggers EXCEPT ![i].colorization = {} ]
    /\ emitted' = NoLine
    /\ last' = Call("clear_colors", i)
    /\ pc' = "returned"

\* loggers[i] == loggers[j]
Eq(i, j) ==
    /\ pc = "idle"
    /\ i \in Ids
    /\ j \in Ids
    /\ last' = [ Call("eq", i) EXCEPT
                    !.other = j,
                    !.eq = LoggerEq(loggers[i], loggers[j], TRUE) ]
    /\ emitted' = NoLine
    /\ pc' = "returned"
    /\ UNCHANGED loggers

\* loggers[i] == other, where other is not a Logger but has the same
\* attributes
EqOther(i) ==
    /\ pc = "idle"
    /\ i \in Ids
    /\ last' = [ Call("eq_other", i) EXCEPT
                    !.eq = LoggerEq(loggers[i],
                                    loggers[i], FALSE) ]
    /\ emitted' = NoLine
    /\ pc' = "returned"
    /\ UNCHANGED loggers

\* logger[key]
GetItemCall(i, key) ==
    /\ pc = "idle"
    /\ i \in Ids
    /\ last' = [ Call("getitem", i) EXCEPT !.value = key,
                                           !.ret = GetItem(loggers[i], key) ]
    /\ emitted' = NoLine
    /\ pc' = "returned"
    /\ UNCHANGED loggers

\* key in logger
ContainsCall(i, key) ==
    /\ pc = "idle"
    /\ i \in Ids
    /\ last' = [ Call("contains", i) EXCEPT !.value = key,
                                            !.eq = Contains(loggers[i], key) ]
    /\ emitted' = NoLine
    /\ pc' = "returned"
    /\ UNCHANGED loggers

\* control is back with the client, which goes on to its next call
Return ==
    /\ pc = "returned"
    /\ pc' = "idle"
    /\ last' = NoCall
    /\ emitted' = NoLine
    /\ UNCHANGED loggers

Next ==
    \/ \E n \in Names, l \in Levels : GetLogger(n, l)
    \/ \E i \in Slots, o \in BOOLEAN, l \in Levels, a \in ArgTuples,
          k \in PlainKwargs : Log(i, o, l, a, k)
    \/ \E i \in Slots, a \in ArgTuples, k \in ConvenienceKwargs : Silent(i, a, k)
    \/ \E i \in Slots, a \in ArgTuples, k \in ConvenienceKwargs : Debug(i, a, k)
    \/ \E i \in Slots, a \in ArgTuples, k \in ConvenienceKwargs : Info(i, a, k)
    \/ \E i \in Slots, a \in ArgTuples, k \in ConvenienceKwargs : Warning(i, a, k)
    \/ \E i \in Slots, a \in ArgTuples, k \in ConvenienceKwargs : Error(i, a, k)
    \/ \E i \in Slots, a \in ArgTuples, k \in ConvenienceKwargs : Critical(i, a, k)
    \/ \E i \in Slots, f \in Callables, a \in ArgTuples, k \in PlainKwargs :
          Execute(i, f, a, k)
    \/ FunctionCall
    \/ \E i \in Slots, t \in BOOLEAN : Exception(i, t)
    \/ \E i \in Slots, v \in Names : SetName(i, v)
    \/ \E i \in Slots, v \in Names : VariantSetName(i, v)
    \/ \E i \in Slots, c \in ColorKeys, v \in CustomColors : SetColorization(i, c, v)
    \/ \E i \in Slots, c \in ColorKeys, v \in CustomColors : StoreColor(i, c, v)
    \/ \E i \in Slots : ClearColors(i)
    \/ \E i \in Slots, j \in Slots : Eq(i, j)
    \/ \E i \in Slots : EqOther(i)
    \/ \E i \in Slots, k \in ItemKeys : GetItemCall(i, k)
    \/ \E i \in Slots, k \in ItemKeys : ContainsCall(i, k)
    \/ Return

Spec == Init /\ [][Next]_vars

----------------------------------------------------------------------------
(* Properties *)

\* the severities in the order of their ranks, lowest first
SeverityOrder == <<"SILENT", "DEBUG", "INFO", "WARNING", "ERROR", "CRITICAL">>
Position(l) == CHOOSE j \in 1..Len(SeverityOrder) : SeverityOrder[j] = l

\* the logger the most recent call was made on
Target == loggers[last.lg]

Returned(op) == pc = "returned" /\ last.op = op

\* C1: log(message, level=X, override=false) on a Logger whose minimum level
\* is M writes exactly one line iff rank(X) >= rank(M), and nothing otherwise.
C1_FilterByRank ==
    (Returned("log") /\ ~last.override) =>
        IF Position(last.level) >= Position(Target.level)
        THEN Len(emitted) = 1
        ELSE emitted = <<>>

\* a message at exactly the minimum level has been written
C1_Witness ==
    /\ Returned("log") /\ ~last.override
    /\ last.level = "WARNING" /\ Target.level = "WARNING"
    /\ Len(emitted) = 1

\* C2: log(message, level=X, override=true) writes exactly one line, tagged
\* with level X, whatever the minimum level M of the logger is.
C2_OverrideAlwaysWrites ==
    (Returned("log") /\ last.override) =>
        /\ Len(emitted) = 1
        /\ emitted[1].level = last.level

\* an overridden SILENT message has been written by a CRITICAL logger
C2_Witness ==
    /\ Returned("log") /\ last.override
    /\ last.level = "SILENT" /\ Target.level = "CRITICAL"
    /\ Len(emitted) = 1 /\ emitted[1].level = "SILENT"

\* C3: each convenience method (silent, debug, info, warning, error,
\* critical), called on a Logger with any minimum level, writes exactly one
\* line tagged with the method's own severity.
C3_ConvenienceAlwaysWrites ==
    Returned("convenience") =>
        /\ Len(emitted) = 1
        /\ emitted[1].level = last.level

\* C4: every assignment to a Logger's name fails with AttributeError, and no
\* step of the program changes the name of an existing Logger.
C4_NameImmutable ==
    [][ /\ \A i \in 1..Len(loggers) : loggers'[i].name = loggers[i].name
        /\ (pc' = "returned" /\ last'.op = "set_name")
              => last'.raised = "AttributeError" ]_vars

\* an assignment of a different name has failed and the name is the old one
C4_Witness ==
    /\ Returned("set_name")
    /\ last.value # last.before[last.lg].name
    /\ last.raised = "AttributeError"
    /\ Target.name = last.before[last.lg].name

\* C5: whatever the callable is and whatever it raises, execute() returns
\* normally, with None when the callable failed: nothing propagates to the
\* caller.
C5_ExecuteNeverRaises ==
    Returned("execute") =>
        /\ last.raised = "none"
        /\ (last.fn.outcome # "return") => last.ret = None

ErrorLines == { j \in 1..Len(emitted) : emitted[j].level = "ERROR" }
InfoLines == { j \in 1..Len(emitted) : emitted[j].level = "INFO" }
Mentions(line, text) == \E j \in 1..Len(line.message) : line.message[j] = text

\* what the claim says of a call of execute() whose callable raised: None is
\* returned, exactly one ERROR line is written and it contains the callable's
\* identifier, and no success, duration or result line is written
ErrorReported ==
    /\ last.raised = "none"
    /\ last.ret = None
    /\ Cardinality(ErrorLines) = 1
    /\ \A j \in ErrorLines : Mentions(emitted[j], last.fn.name)
    /\ \A j \in 1..Len(emitted) :
          /\ emitted[j].message # SuccessMessage(last.fn)
          /\ emitted[j].message # DurationMessage
          /\ emitted[j].message[1] # "Result: "

\* C6 as stated: when the callable passed to execute() raises, execute()
\* returns None and writes exactly one ERROR line, which contains the
\* callable's identifier, and no success, duration or result line, whatever
\* the minimum level of the logger is.
C6_AnyRaiseReported ==
    (Returned("execute") /\ last.invoked /\ last.fn.outcome # "return")
        => ErrorReported

\* C6 as amended: the same, when what the callable raises is an Exception.
C6_ExceptionReported ==
    (Returned("execute") /\ last.invoked /\ last.fn.outcome = "Exception")
        => ErrorReported

\* the failure of a callable has been reported by a logger whose minimum
\* level is above ERROR
C6_Witness ==
    /\ Returned("execute") /\ last.invoked /\ last.fn.outcome = "Exception"
    /\ Target.level = "CRITICAL"
    /\ last.ret = None
    /\ Cardinality(ErrorLines) = 1

\* C7: when the callable returns v, execute() returns v; an INFO line naming
\* the callable and its arguments is written before the callable is invoked;
\* at least three more INFO lines are written after it, and no ERROR line.
C7_ExecuteWrapsCall ==
    /\ pc = "calling" =>
          /\ Len(emitted) = 1
          /\ emitted[1].level = "INFO"
          /\ Mentions(emitted[1], last.fn.name)
          /\ \A j \in 1..Len(last.args) : Mentions(emitted[1], last.args[j])
    /\ (Returned("execute") /\ last.invoked /\ last.fn.outcome = "return") =>
          /\ last.raised = "none"
          /\ last.ret = last.fn.value
          /\ emitted[1].level = "INFO"
          /\ Mentions(emitted[1], last.fn.name)
          /\ Cardinality(InfoLines \ {1}) >= 3
          /\ ErrorLines = {}

\* a callable called with an argument has returned 3 through a logger whose
\* minimum level is above INFO
C7_Witness ==
    /\ Returned("execute") /\ last.invoked /\ last.fn.outcome = "return"
    /\ last.args # <<>>
    /\ Target.level = "CRITICAL"
    /\ last.ret = "3"
    /\ Len(emitted) = 4

\* C8: a == b holds iff a.name == b.name and a.level == b.level, whatever the
\* colorization tables are; a Logger is not equal to a value that is not a
\* Logger.
C8_Equality ==
    /\ Returned("eq") =>
          (last.eq <=> /\ Target.name = loggers[last.other].name
                       /\ Target.level = loggers[last.other].level)
    /\ Returned("eq_other") => ~last.eq

\* two distinct Loggers of the same name and level with different colour
\* tables have compared equal
C8_Witness ==
    /\ Returned("eq")
    /\ last.lg # last.other
    /\ Target.colorization # loggers[last.other].colorization
    /\ last.eq

\* C9: log() and every convenience method complete without raising, for any
\* message, severity, override value and extra positional and keyword
\* arguments.
C9_LoggingNeverRaises ==
    (Returned("log") \/ Returned("convenience")) => last.raised = "none"

IsPrefix(p, q) == Len(p) <= Len(q) /\ SubSeq(q, 1, Len(p)) = p

\* C10: exception(exception, message, logTraceback) writes an ERROR line
\* whose text begins with the given message; the stack trace is appended to
\* the message iff logTraceback is true.
C10_ExceptionLogsError ==
    Returned("exception") =>
        /\ last.raised = "none"
        /\ Len(emitted) = 1
        /\ emitted[1].level = "ERROR"
        /\ IsPrefix(last.message, emitted[1].message)
        /\ (emitted[1].message # last.message) <=> last.flag

\* C11: logger[key] never fails; for a key that names an attribute of the
\* Logger ("name", "level") it returns the attribute's current value, and for
\* every other key it returns None.
C11_GetItemReturnsAttribute ==
    Returned("getitem") =>
        /\ last.raised = "none"
        /\ last.value = "name" => last.ret = Target.name
        /\ last.value = "level" => last.ret = Target.level
        /\ last.value = "missing" => last.ret = None

\* the calls that write through log() of core.py
Logging == last.op \in {"log", "convenience", "execute"}

\* the table holds an entry for this key
HasEntry(table, key) == \E p \in table : p[1] = key
Entry(table, key) == (CHOOSE p \in table : p[1] = key)[2]

C13_ColorizationAssignable ==
    Returned("set_colorization") =>
        /\ last.raised = "none"
        /\ HasEntry(Target.colorization, last.level)
        /\ Entry(Target.colorization, last.level) = last.value

\* C14: every call of get_logger yields a new Logger with an empty
\* colorization table and leaves the Loggers created before as they were; no
\* operation on one Logger changes the name, level or colorization table of
\* another, even one with the same name and level.
C14_IndependentInstances ==
    [][ IF pc = "idle" /\ last'.op = "get_logger"
        THEN /\ Len(loggers') = Len(loggers) + 1
             /\ last'.lg = Len(loggers')
             /\ loggers'[last'.lg].colorization = {}
             /\ \A j \in 1..Len(loggers) : loggers'[j] = loggers[j]
        ELSE /\ Len(loggers') = Len(loggers)
             /\ \A j \in 1..Len(loggers) :
                   j # last'.lg => loggers'[j] = loggers[j] ]_vars

\* a second Logger with the name and level of the first has been created
\* with an empty table while the first holds a colour
C14_Witness ==
    /\ Returned("get_logger")
    /\ last.lg = 2
    /\ loggers[1].name = loggers[2].name
    /\ loggers[1].level = loggers[2].level
    /\ loggers[1].colorization # {}
    /\ loggers[2].colorization = {}

\* C15: log(), the convenience methods and execute() leave the Logger's name,
\* minimum level and colorization table as they were, whether a line was
\* written or not; a log() call that is suppressed writes nothing.
C15_LoggingLeavesLoggerUnchanged ==
    [][ last'.op \in {"log", "convenience", "execute"} =>
          /\ loggers' = loggers
          /\ ( /\ last'.op = "log"
               /\ ~last'.override
               /\ Position(last'.level) < Position(loggers[last'.lg].level) )
                => emitted' = <<>> ]_vars

\* a suppressed log() call has returned, the Logger and its colours as before
C15_Witness ==
    /\ Returned("log") /\ ~last.override
    /\ last.level = "DEBUG" /\ Target.level = "INFO"
    /\ emitted = <<>>
    /\ Target.colorization # {}
    /\ loggers = last.before

====
